---- MODULE Spec2Model ----
(***************************************************************************)
(* CxBlueprint: the canvas layout engine (cxblueprint/canvas_layout.py)    *)
(* and the flow builder that produces its input and validates a flow       *)
(* before compiling it (cxblueprint/flow_builder.py, blocks/base.py,       *)
(* flow_analyzer.py).                                                      *)
(*                                                                         *)
(* A block identifier is a uuid string in the program; here block number k *)
(* of the flow has identifier k, Stray is the identifier of a block object *)
(* that was constructed but never registered with the flow, and None is    *)
(* Python's None.                                                          *)
(***************************************************************************)
EXTENDS Integers, Sequences, FiniteSets, TLC

\* ---------------------------------------------------------------- bounds
MaxBlocks == 2
MaxEdges == 3
MaxRow == 3
MaxFlowSize == 4
\* the blocks of a flow grown branch by branch
MaxTreeBlocks == 6
\* the blocks and the transitions of a flow wired front to back
MaxForwardBlocks == 3
MaxForwardEdges == 4
\* the blocks and the transitions of a flow with shared NextAction targets
MaxSharedBlocks == 4
MaxSharedEdges == 5
\* the blocks plus transitions of a flow laid out in every list order
MaxReorderedSize == 6
\* the blocks of the graphs row assignment is run on one after the other
MaxSweepBlocks == 3

\* ------------------------------------------------------ program constants
BLOCK_HEIGHT_BASE == 100
BLOCK_HEIGHT_PER_BRANCH == 25
HORIZONTAL_SPACING == 280
VERTICAL_SPACING_MIN == 180
START_X == 150
START_Y == 50
ROW_PADDING == 80

None == -1
Stray == 0

VARIABLES blocks, start_action, block_stats, ret

vars == <<blocks, start_action, block_stats, ret>>

\* ------------------------------------------------------------- utilities
Min(S) == CHOOSE m \in S : \A n \in S : m <= n

Max(S) == CHOOSE m \in S : \A n \in S : m >= n

Range(s) == {s[i] : i \in DOMAIN s}

RECURSIVE SortedSeq(_)
\* sorted(S) for a finite set of integers
SortedSeq(S) ==
    IF S = {} THEN <<>> ELSE <<Min(S)>> \o SortedSeq(S \ {Min(S)})

RECURSIVE Flatten(_)
Flatten(ss) == IF ss = <<>> THEN <<>> ELSE Head(ss) \o Flatten(Tail(ss))

RECURSIVE InsertByKey(_, _, _)
\* x goes after every element whose key is not larger (stable)
InsertByKey(s, x, key) ==
    IF s = <<>> THEN <<x>>
    ELSE IF key[Head(s)] <= key[x]
         THEN <<Head(s)>> \o InsertByKey(Tail(s), x, key)
         ELSE <<x>> \o s

RECURSIVE SortByKey(_, _)
\* list.sort(key=...): stable, ascending
SortByKey(s, key) ==
    IF s = <<>> THEN <<>>
    ELSE InsertByKey(SortByKey(SubSeq(s, 1, Len(s) - 1), key), s[Len(s)], key)

\* ---------------------------------------------------------------- blocks
\* a block as its constructor leaves it; errs holds the NextAction of each
\* entry of transitions["Errors"] and etypes its ErrorType
NewBlock(id, ty) ==
    [identifier |-> id, type |-> ty, next |-> None, conds |-> <<>>,
     errs |-> <<>>, etypes |-> <<>>]

NoBlock == [identifier |-> None, next |-> None, conds |-> <<>>, errs |-> <<>>]

BlockIds(bs) == {bs[i].identifier : i \in DOMAIN bs}

\* next((b for b in blocks if b.identifier == block_id), None)
GetBlock(bs, id) ==
    IF id \in BlockIds(bs)
    THEN bs[Min({i \in DOMAIN bs : bs[i].identifier = id})]
    ELSE NoBlock

\* NextAction first, then the conditions in order, then the errors in order;
\* an entry whose NextAction is empty (None here) names no target
GetAllTargets(block) ==
    (IF block.next # None THEN <<block.next>> ELSE <<>>)
    \o SelectSeq(block.conds, LAMBDA t : t # None)
    \o SelectSeq(block.errs, LAMBDA t : t # None)

EdgeCount(bs) == Len(Flatten([i \in DOMAIN bs |-> GetAllTargets(bs[i])]))

\* ------------------------------------------------- phase 1: _assign_levels
\* levels is the dict in insertion order: a sequence of [id, level]
\* the membership test always failing
NotInLevels(levels, id) == FALSE

\* block_id in levels
HasLevel(levels, id) == \E i \in DOMAIN levels : levels[i].id = id

\* levels[block_id] = level: a new key goes last, an old key keeps its place
PutLevel(levels, item) ==
    IF \E i \in DOMAIN levels : levels[i].id = item.id
    THEN [i \in DOMAIN levels |-> IF levels[i].id = item.id THEN item ELSE levels[i]]
    ELSE Append(levels, item)

LevelOf(levels, id) == levels[Min({i \in DOMAIN levels : levels[i].id = id})].level

LevelKeys(levels) == {levels[i].id : i \in DOMAIN levels}

\* the while loop pops at most once per queue entry: the seed and one per edge
LevelsBudget(bs) == 1 + EdgeCount(bs)

\* the check of line 144 left out: a later, longer path assigns again
NeverSkip(levels, id) == FALSE

\* line 144: if block_id in levels: continue
SkipAssigned(levels, id) == HasLevel(levels, id)

\* the targets queued at the level of their parent
QueueTargetsSameLevel(block, levels, level) ==
    LET ts == SelectSeq(GetAllTargets(block), LAMBDA t : ~HasLevel(levels, t))
    IN  [i \in DOMAIN ts |-> [id |-> ts[i], level |-> level]]

\* lines 154-156: the targets not yet assigned, queued at level + 1
QueueTargets(block, levels, level) ==
    LET ts == SelectSeq(GetAllTargets(block), LAMBDA t : ~HasLevel(levels, t))
    IN  [i \in DOMAIN ts |-> [id |-> ts[i], level |-> level + 1]]

RECURSIVE LevelsLoop(_, _, _, _)
LevelsLoop(bs, queue, levels, pops) ==
    IF queue = <<>> THEN [levels |-> levels, pops |-> pops, completed |-> TRUE]
    ELSE IF pops >= LevelsBudget(bs)
    THEN [levels |-> levels, pops |-> pops, completed |-> FALSE]
    ELSE LET item == Head(queue)
             rest == Tail(queue)
         IN  IF SkipAssigned(levels, item.id)
             THEN LevelsLoop(bs, rest, levels, pops + 1)
             ELSE LET levels2 == PutLevel(levels, item)
                      block == GetBlock(bs, item.id)
                  IN  IF block = NoBlock
                      THEN LevelsLoop(bs, rest, levels2, pops + 1)
                      ELSE LevelsLoop(bs, rest \o QueueTargets(block, levels2, item.level),
                                      levels2, pops + 1)

\* the queue seeded with the start and with every block of the list
AssignLevelsAllBlocks(bs, start) ==
    LevelsLoop(bs, <<[id |-> start, level |-> 0]>>
                   \o [i \in DOMAIN bs |-> [id |-> bs[i].identifier, level |-> 0]], <<>>, 0)

\* the queue seeded with level 1
AssignLevelsFromOne(bs, start) ==
    LevelsLoop(bs, <<[id |-> start, level |-> 1]>>, <<>>, 0)

AssignLevels(bs, start) ==
    LevelsLoop(bs, <<[id |-> start, level |-> 0]>>, <<>>, 0)

\* --------------------------------------------------- phase 2: _assign_rows
EdgeList(bs) ==
    Flatten([i \in DOMAIN bs |->
        LET ts == GetAllTargets(bs[i])
        IN  [j \in DOMAIN ts |-> [src |-> bs[i].identifier, tgt |-> ts[j]]]])

\* block_id -> list of parent block_ids
BuildParentMap(bs) ==
    LET es == EdgeList(bs)
    IN  [t \in {es[i].tgt : i \in DOMAIN es} |->
            LET into == SelectSeq(es, LAMBDA e : e.tgt = t)
            IN  [i \in DOMAIN into |-> into[i].src]]

\* the rows of the parents ignored: every fallback scan starts at row 0
GetParentRowZero(id, rows, parent_map) == 0

\* the fallback row started one row beneath the parents
GetParentRowBelow(id, rows, parent_map) ==
    LET parent_ids == IF id \in DOMAIN parent_map THEN parent_map[id] ELSE <<>>
        parent_rows == {rows[p] : p \in Range(parent_ids) \cap DOMAIN rows}
    IN  IF parent_rows # {} THEN Min(parent_rows) + 1 ELSE 0

\* minimum row of the parents that have a row, 0 if none has
GetParentRow(id, rows, parent_map) ==
    LET parent_ids == IF id \in DOMAIN parent_map THEN parent_map[id] ELSE <<>>
        parent_rows == {rows[p] : p \in Range(parent_ids) \cap DOMAIN rows}
    IN  IF parent_rows # {} THEN Min(parent_rows) ELSE 0

\* the map holding the list position of the parent instead of its identifier
BuildNextActionMapByPosition(bs) ==
    LET withNext == {i \in DOMAIN bs : bs[i].next # None}
    IN  [t \in {bs[i].next : i \in withNext} |->
            Max({i \in withNext : bs[i].next = t})]

\* block_id -> the parent that reaches it via NextAction (the last one in list order)
BuildNextActionMap(bs) ==
    LET withNext == {i \in DOMAIN bs : bs[i].next # None}
    IN  [t \in {bs[i].next : i \in withNext} |->
            bs[Max({i \in withNext : bs[i].next = t})].identifier]

\* level_groups[level]: the ids of that level in the order levels holds them
LevelGroup(levels, level) ==
    LET at == SelectSeq(levels, LAMBDA l : l.level = level)
    IN  [i \in DOMAIN at |-> at[i].id]

\* no forward scan: the minimum parent row is taken as it is
ScanNoLoop(row, used, steps) == [row |-> row, completed |-> TRUE]

RECURSIVE ScanByTwo(_, _, _)
\* the scan stepping over two rows at a time
ScanByTwo(row, used, steps) ==
    IF row \notin used THEN [row |-> row, completed |-> TRUE]
    ELSE IF steps >= Cardinality(used) THEN [row |-> row, completed |-> FALSE]
    ELSE ScanByTwo(row + 2, used, steps + 1)

RECURSIVE ScanLoop(_, _, _)
\* while row in used: row += 1
ScanLoop(row, used, steps) ==
    IF row \notin used THEN [row |-> row, completed |-> TRUE]
    ELSE IF steps >= Cardinality(used) THEN [row |-> row, completed |-> FALSE]
    ELSE ScanLoop(row + 1, used, steps + 1)

\* the parent's row taken without looking whether it is free at this level
TakesParentRowUnchecked(id, rows, used, next_action_parent) ==
    /\ id \in DOMAIN next_action_parent
    /\ next_action_parent[id] \in DOMAIN rows

\* lines 224-227: the NextAction parent is placed and its row is free at this level
TakesParentRow(id, rows, used, next_action_parent) ==
    /\ id \in DOMAIN next_action_parent
    /\ next_action_parent[id] \in DOMAIN rows
    /\ rows[next_action_parent[id]] \notin used

RECURSIVE PlaceLevel(_, _, _, _, _, _)
\* the loop over blocks_at_level; used is used_rows_per_level[level]
PlaceLevel(ids, rows, used, parent_map, next_action_parent, ok) ==
    IF ids = <<>> THEN [rows |-> rows, completed |-> ok]
    ELSE LET id == Head(ids)
         IN  IF TakesParentRow(id, rows, used, next_action_parent)
             THEN LET desired_row == rows[next_action_parent[id]]
                  IN  PlaceLevel(Tail(ids), (id :> desired_row) @@ rows,
                                 used \cup {desired_row},
                                 parent_map, next_action_parent, ok)
             ELSE LET min_row == GetParentRow(id, rows, parent_map)
                      scan == ScanLoop(min_row, used, 0)
                  IN  PlaceLevel(Tail(ids), (id :> scan.row) @@ rows,
                                 used \cup {scan.row},
                                 parent_map, next_action_parent,
                                 ok /\ scan.completed)

\* the level sorted by the parent's row in descending order
SortLevelDescending(ids, rows, parent_map) ==
    SortByKey(ids, [id \in Range(ids) |-> 0 - GetParentRow(id, rows, parent_map)])

\* line 216: sort by the parent's row as it is before this level is placed
SortLevel(ids, rows, parent_map) ==
    SortByKey(ids, [id \in Range(ids) |-> GetParentRow(id, rows, parent_map)])

RECURSIVE RowsLoop(_, _, _, _, _, _, _)
\* for level in sorted(level_groups.keys()); order holds the keys of the rows
\* dict in the order they were inserted
RowsLoop(lvls, levels, rows, order, parent_map, next_action_parent, ok) ==
    IF lvls = <<>> THEN [rows |-> rows, order |-> order, completed |-> ok]
    ELSE LET blocks_at_level == SortLevel(LevelGroup(levels, Head(lvls)), rows, parent_map)
             placed == PlaceLevel(blocks_at_level, rows, {}, parent_map,
                                  next_action_parent, ok)
         IN  RowsLoop(Tail(lvls), levels, placed.rows, order \o blocks_at_level,
                      parent_map, next_action_parent, placed.completed)

AssignRows(bs, levels) ==
    RowsLoop(SortedSeq({levels[i].level : i \in DOMAIN levels}), levels, <<>>, <<>>,
             BuildParentMap(bs), BuildNextActionMap(bs), TRUE)

\* -------------------------------------------------- phase 3: _compact_rows
\* rows renumbered without gaps in descending order: the largest row becomes 0
CompactRowsMirror(rows) ==
    IF DOMAIN rows = {} THEN rows
    ELSE LET unique_rows == SortedSeq({rows[k] : k \in DOMAIN rows})
             row_map == [old \in Range(unique_rows) |->
                            Len(unique_rows) -
                            (CHOOSE i \in DOMAIN unique_rows : unique_rows[i] = old)]
         IN  [k \in DOMAIN rows |-> row_map[rows[k]]]

\* rows shifted down to start at 0, gaps kept
CompactRowsShift(rows) ==
    IF DOMAIN rows = {} THEN rows
    ELSE [k \in DOMAIN rows |-> rows[k] - Min({rows[j] : j \in DOMAIN rows})]

CompactRows(rows) ==
    IF DOMAIN rows = {} THEN rows
    ELSE LET unique_rows == SortedSeq({rows[k] : k \in DOMAIN rows})
             row_map == [old \in Range(unique_rows) |->
                            (CHOOSE i \in DOMAIN unique_rows : unique_rows[i] = old) - 1]
         IN  [k \in DOMAIN rows |-> row_map[rows[k]]]

\* ----------------------------------------------- phases 4-5: pixel positions
BranchCount(block) == Len(block.conds) + Len(block.errs)

\* the error branches not counted
GetBlockHeightConditionsOnly(block) ==
    IF block = NoBlock THEN BLOCK_HEIGHT_BASE
    ELSE BLOCK_HEIGHT_BASE + Len(block.conds) * BLOCK_HEIGHT_PER_BRANCH

GetBlockHeight(block) ==
    IF block = NoBlock THEN BLOCK_HEIGHT_BASE
    ELSE BLOCK_HEIGHT_BASE + BranchCount(block) * BLOCK_HEIGHT_PER_BRANCH

\* every row of the minimum height, whatever its nodes
RowHeightMinOnly(bs, rows, row) == VERTICAL_SPACING_MIN

\* lines 66-73
RowHeight(bs, rows, row) ==
    Max({VERTICAL_SPACING_MIN} \cup
        {GetBlockHeight(GetBlock(bs, id)) + ROW_PADDING :
            id \in {k \in DOMAIN rows : rows[k] = row}})

RECURSIVE RowYLoop(_, _, _, _)
\* lines 76-80: cumulative y over the sorted rows
RowYLoop(sorted_rows, bs, rows, current_y) ==
    IF sorted_rows = <<>> THEN <<>>
    ELSE (Head(sorted_rows) :> current_y) @@
         RowYLoop(Tail(sorted_rows), bs, rows,
                  current_y + RowHeight(bs, rows, Head(sorted_rows)))

\* current_y never advanced: every row at START_Y
RowYNoAccumulate(bs, rows) ==
    [r \in {rows[k] : k \in DOMAIN rows} |-> START_Y]

RowYPositions(bs, rows) ==
    RowYLoop(SortedSeq({rows[k] : k \in DOMAIN rows}), bs, rows, START_Y)

\* columns spaced by the block width (200) instead of HORIZONTAL_SPACING
PixelXByWidth(level) == START_X + level * 200

PixelX(level) == START_X + level * HORIZONTAL_SPACING

EmptyLayout ==
    [levels |-> <<>>, assigned |-> <<>>, order |-> <<>>, rows |-> <<>>,
     row_y |-> <<>>, positions |-> <<>>, completed |-> TRUE]

\* lines 50-96: the five phases
ComputeLayout(bs, start) ==
         LET lv == AssignLevels(bs, start)
             levels == lv.levels
             as == AssignRows(bs, levels)
             rows == CompactRows(as.rows)
             row_y == RowYPositions(bs, rows)
         IN  [levels |-> levels,
              assigned |-> as.rows,
              order |-> as.order,
              rows |-> rows,
              row_y |-> row_y,
              positions |-> [id \in LevelKeys(levels) |->
                                [x |-> PixelX(LevelOf(levels, id)), y |-> row_y[rows[id]]]],
              completed |-> lv.completed /\ as.completed]

\* the guard of lines 47-48 left out
CalculatePositionsNoGuard(bs, start) == ComputeLayout(bs, start)

CalculatePositions(bs, start) ==
    IF start = None THEN EmptyLayout ELSE ComputeLayout(bs, start)

\* ---------------------------------------------------- _print_debug_info
\* the encodings sys.stdout can have: one that holds every character and one
\* that holds the ASCII characters only
Encodings == {"utf-8", "ascii"}

\* the lines _print_debug_info writes for a non-empty mapping, in order; ascii
\* tells whether the text of the line is ASCII only (the separator of the
\* canvas size line, line 291, is not)
DebugLines(positions) ==
    LET x_coords == {positions[k].x : k \in DOMAIN positions}
        y_coords == {positions[k].y : k \in DOMAIN positions}
        pos_set == {<<positions[k].x, positions[k].y>> : k \in DOMAIN positions}
        collision_count == Cardinality(DOMAIN positions) - Cardinality(pos_set)
    IN  << [text |-> "Canvas Layout Debug", values |-> <<>>, ascii |-> TRUE],
           [text |-> "------------------------------", values |-> <<>>, ascii |-> TRUE],
           [text |-> "Blocks positioned", values |-> <<Cardinality(DOMAIN positions)>>,
            ascii |-> TRUE],
           [text |-> "Canvas size",
            values |-> <<Max(x_coords) - Min(x_coords) + 200,
                         Max(y_coords) - Min(y_coords) + 100>>,
            ascii |-> FALSE],
           [text |-> "Layout columns rows",
            values |-> <<Cardinality(x_coords), Cardinality(y_coords)>>, ascii |-> TRUE],
           IF collision_count = 0
           THEN [text |-> "No collisions detected", values |-> <<>>, ascii |-> TRUE]
           ELSE [text |-> "WARNING collisions detected", values |-> <<collision_count>>,
                 ascii |-> TRUE],
           [text |-> "------------------------------", values |-> <<>>, ascii |-> TRUE] >>

\* the lines written to a stdout of the given encoding: print raises
\* UnicodeEncodeError at the first line the encoding cannot hold
PrintDebugInfo(positions, encoding) ==
    LET lines == DebugLines(positions)
        bad == {i \in DOMAIN lines : encoding = "ascii" /\ ~lines[i].ascii}
    IN  IF bad = {} THEN [printed |-> lines, raised |-> ""]
        ELSE [printed |-> SubSeq(lines, 1, Min(bad) - 1), raised |-> "UnicodeEncodeError"]

\* calculate_positions of an engine built with the debug flag: what it prints,
\* the exception that leaves it ("" when it returns) and the mapping it
\* returns (nothing when it raises)
CalculatePositionsDebug(bs, start, debug, encoding) ==
    LET positions == CalculatePositions(bs, start).positions
    IN  IF start = None \/ ~debug
        THEN [printed |-> <<>>, raised |-> "", returned |-> <<positions>>]
        ELSE LET out == PrintDebugInfo(positions, encoding)
             IN  [printed |-> out.printed, raised |-> out.raised,
                  returned |-> IF out.raised = "" THEN <<positions>> ELSE <<>>]

\* ------------------------------------------------------------ FlowAnalyzer
BlockTypes == {"GetParticipantInput", "MessageParticipant", "DisconnectParticipant"}

\* a Type of the JSON that BLOCK_TYPE_MAP does not hold
UnknownType == "UnknownType"

ErrorTypes == {"InputTimeLimitExceeded", "NoMatchingCondition", "NoMatchingError"}

required_errors == {"InputTimeLimitExceeded", "NoMatchingCondition", "NoMatchingError"}

terminal_types ==
    {"DisconnectParticipant", "EndFlowExecution", "TransferToFlow", "TransferContactToQueue"}

\* the loop pops at most once per stack entry: the start and one per edge
OrphansBudget(bs) == 1 + EdgeCount(bs)

RECURSIVE OrphansLoop(_, _, _, _)
\* while to_visit: block_id = to_visit.pop() ...; to_visit is a stack, its
\* top is the last element
OrphansLoop(bs, to_visit, reachable, pops) ==
    IF to_visit = <<>> THEN [reachable |-> reachable, completed |-> TRUE]
    ELSE IF pops >= OrphansBudget(bs) THEN [reachable |-> reachable, completed |-> FALSE]
    ELSE LET block_id == to_visit[Len(to_visit)]
             rest == SubSeq(to_visit, 1, Len(to_visit) - 1)
         IN  IF block_id \in reachable
             THEN OrphansLoop(bs, rest, reachable, pops + 1)
             ELSE LET block == GetBlock(bs, block_id)
                  IN  IF block = NoBlock
                      THEN OrphansLoop(bs, rest, reachable \cup {block_id}, pops + 1)
                      ELSE OrphansLoop(bs, rest \o GetAllTargets(block),
                                       reachable \cup {block_id}, pops + 1)

\* the targets never pushed: only the start is reachable
FindOrphanedBlocksStartOnly(bs, start) ==
    [orphans |-> BlockIds(bs) \ {start}, completed |-> TRUE]

\* FlowAnalyzer(bs, start).find_orphaned_blocks(), the list taken as a set
FindOrphanedBlocks(bs, start) ==
    LET walk == OrphansLoop(bs, <<start>>, {}, 0)
    IN  [orphans |-> BlockIds(bs) \ walk.reachable, completed |-> walk.completed]

\* block id -> the required error types it does not handle, for the
\* GetParticipantInput blocks that miss one
FindMissingErrorHandlers(bs) ==
    LET unhandled(b) == required_errors \ Range(b.etypes)
        missing == {i \in DOMAIN bs :
                       bs[i].type = "GetParticipantInput" /\ unhandled(bs[i]) # {}}
    IN  [id \in {bs[i].identifier : i \in missing} |-> unhandled(GetBlock(bs, id))]

\* the ids of the non-terminal blocks with no outgoing transition, in list order
FindUnterminatedPaths(bs) ==
    LET open == SelectSeq(bs, LAMBDA b :
                    /\ b.type \notin terminal_types
                    /\ ~(b.next # None \/ b.conds # <<>> \/ b.errs # <<>>))
    IN  [i \in DOMAIN open |-> open[i].identifier]

\* the unterminated blocks not looked at
HasIssuesNoUnterminated(bs, start) ==
    \/ FindOrphanedBlocks(bs, start).orphans # {}
    \/ DOMAIN FindMissingErrorHandlers(bs) # {}

\* FlowAnalyzer.has_issues
HasIssues(bs, start) ==
    \/ FindOrphanedBlocks(bs, start).orphans # {}
    \/ DOMAIN FindMissingErrorHandlers(bs) # {}
    \/ FindUnterminatedPaths(bs) # <<>>

\* ------------------------------------------------------------------- Flow
\* the counter set to one instead of incremented
TrackBlockTypeSetOne(stats, ty) == (ty :> 1) @@ stats

\* Flow._track_block_type
TrackBlockType(stats, ty) ==
    (ty :> (IF ty \in DOMAIN stats THEN stats[ty] ELSE 0) + 1) @@ stats

RECURSIVE TrackAll(_, _)
\* the stats after the loop of decompile over the actions
TrackAll(stats, tys) ==
    IF tys = <<>> THEN stats ELSE TrackAll(TrackBlockType(stats, Head(tys)), Tail(tys))

\* Flow.validate: TRUE when it returns True, FALSE when it raises
\* FlowValidationError
Validate(bs, start) ==
    IF start = None THEN FALSE
    ELSE IF HasIssues(bs, start) THEN FALSE
    ELSE TRUE

\* Flow._build_metadata: ActionMetadata, block id -> position
BuildMetadata(bs, start) == CalculatePositions(bs, start).positions

\* block.to_dict(): the block as the call leaves it.  FlowBlock.to_dict only
\* reads; DistributeByPercentage.to_dict first appends an error entry with an
\* empty NextAction when the block has no NoMatchingCondition entry
ToDict(block) ==
    IF block.type = "DistributeByPercentage" /\ "NoMatchingCondition" \notin Range(block.etypes)
    THEN [block EXCEPT !.errs = Append(@, None),
                       !.etypes = Append(@, "NoMatchingCondition")]
    ELSE block

\* [block.to_dict() for block in self.blocks]
ToDictAll(bs) == [i \in DOMAIN bs |-> ToDict(bs[i])]

\* Flow.compile: raised is the exception that leaves the call ("" when it
\* returns), compiled holds the flow it returns (nothing when it raises)
CompileFlow(bs, start) ==
    IF ~Validate(bs, start)
    THEN [raised |-> "FlowValidationError", compiled |-> <<>>]
    ELSE [raised |-> "",
          compiled |-> <<[StartAction |-> start,
                          Metadata |-> BuildMetadata(bs, start),
                          Actions |-> ToDictAll(bs)]>>]

\* flow.blocks after compile(): to_dict has run on every block when the
\* validation passed (the Metadata entry of the dict literal is evaluated
\* before the Actions entry)
BlocksAfterCompile(bs, start) ==
    IF Validate(bs, start) THEN ToDictAll(bs) ELSE bs

\* ------------------------------------------------------------ the program
Init ==
    /\ blocks = <<>>
    /\ start_action = None
    /\ block_stats = <<>>
    /\ ret = [op |-> "build"]

\* every registration makes the new block the start action
RegisterResetsStart(ty) ==
    /\ Len(blocks) < MaxBlocks
    /\ blocks' = Append(blocks, NewBlock(Len(blocks) + 1, ty))
    /\ block_stats' = TrackBlockType(block_stats, ty)
    /\ start_action' = Len(blocks) + 1
    /\ ret' = [op |-> "register"]

\* Flow._register_block on a new block of type ty: append, track the type,
\* and the first block becomes the start action
AppendBlock(ty) ==
    /\ blocks' = Append(blocks, NewBlock(Len(blocks) + 1, ty))
    /\ block_stats' = TrackBlockType(block_stats, ty)
    /\ start_action' = IF start_action = None THEN Len(blocks) + 1 ELSE start_action
    /\ ret' = [op |-> "register"]

\* a registration in a flow of at most MaxBlocks blocks
Register(ty) ==
    /\ Len(blocks) < MaxBlocks
    /\ AppendBlock(ty)

\* Flow.get_input: the block type that has then (otherwise), when and on_error
RegisterBlock == Register("GetParticipantInput")

\* the block objects a wiring call can be given as its target
TargetIds == BlockIds(blocks) \cup {Stray}

\* FlowBlock.then / GetParticipantInput.otherwise: NextAction is overwritten
SetNext(i, t) ==
    /\ blocks' = [blocks EXCEPT ![i].next = t]
    /\ UNCHANGED <<start_action, block_stats>>
    /\ ret' = [op |-> "then"]

\* then in a flow of at most MaxEdges transitions
Then(i, t) ==
    /\ SetNext(i, t)
    /\ EdgeCount(blocks') <= MaxEdges

\* GetParticipantInput.when: one more condition
AddCondition(i, t) ==
    /\ blocks[i].type = "GetParticipantInput"
    /\ blocks' = [blocks EXCEPT ![i].conds = Append(@, t)]
    /\ UNCHANGED <<start_action, block_stats>>
    /\ ret' = [op |-> "when"]

\* when in a flow of at most MaxEdges transitions
When(i, t) ==
    /\ EdgeCount(blocks) < MaxEdges
    /\ AddCondition(i, t)

\* FlowBlock.on_error(e, t)
OnErrorOf(i, e, t) ==
    /\ EdgeCount(blocks) < MaxEdges
    /\ blocks' = [blocks EXCEPT ![i].errs = Append(@, t), ![i].etypes = Append(@, e)]
    /\ UNCHANGED <<start_action, block_stats>>
    /\ ret' = [op |-> "on_error"]

\* on_error with the one error type the layout flows use
OnError(i, t) == OnErrorOf(i, "NoMatchingError", t)

\* CanvasLayoutEngine.calculate_positions(flow.blocks, s).  ret holds the value
\* the last call returned; a call that follows another call on the unchanged
\* flow is left out, the state it would reach being reached from the flow as
\* built.
Layout(s) ==
    /\ ret.op # "calculate_positions"
    /\ ret' = [op |-> "calculate_positions", start |-> s] @@ CalculatePositions(blocks, s)
    /\ UNCHANGED <<blocks, start_action, block_stats>>

\* the row dicts handed to _compact_rows directly, as the unit test does
RowDicts == UNION {[K -> 0..MaxRow] : K \in SUBSET (0..MaxBlocks)}

\* CanvasLayoutEngine._compact_rows(r)
CompactRowsCall(r) ==
    /\ ret' = [op |-> "compact_rows", input |-> r, output |-> CompactRows(r)]
    /\ UNCHANGED <<blocks, start_action, block_stats>>

Next ==
    \/ RegisterBlock
    \/ \E i \in DOMAIN blocks, t \in TargetIds : Then(i, t)
    \/ \E i \in DOMAIN blocks, t \in TargetIds : When(i, t)
    \/ \E i \in DOMAIN blocks, t \in TargetIds : OnError(i, t)
    \/ \E s \in TargetIds \cup {None} : Layout(s)

Spec == Init /\ [][Next]_vars

\* FlowAnalyzer(flow.blocks, s).find_orphaned_blocks()
FindOrphans(s) ==
    /\ ret.op # "find_orphaned_blocks"
    /\ ret' = [op |-> "find_orphaned_blocks", start |-> s] @@ FindOrphanedBlocks(blocks, s)
    /\ UNCHANGED <<blocks, start_action, block_stats>>

NextAnalyzer ==
    \/ RegisterBlock
    \/ \E i \in DOMAIN blocks, t \in TargetIds : Then(i, t)
    \/ \E i \in DOMAIN blocks, t \in TargetIds : When(i, t)
    \/ \E i \in DOMAIN blocks, t \in TargetIds : OnError(i, t)
    \/ \E s \in TargetIds \cup {None} : FindOrphans(s)

SpecAnalyzer == Init /\ [][NextAnalyzer]_vars

\* the blocks and the transitions of a flow
FlowSize(bs) == Len(bs) + EdgeCount(bs)

\* Flow.compile(); ret holds the exception raised or the value returned
Compile ==
    /\ ret.op # "compile"
    /\ ret' = [op |-> "compile"] @@ CompileFlow(blocks, start_action)
    /\ blocks' = BlocksAfterCompile(blocks, start_action)
    /\ UNCHANGED <<start_action, block_stats>>

\* flow.compile() called again right after a compile() that returned: first
\* keeps the Metadata.ActionMetadata of the call before
CompileAgain ==
    /\ ret.op = "compile"
    /\ ret.raised = ""
    /\ ret' = [op |-> "compile_again", first |-> ret.compiled[1].Metadata] @@
              CompileFlow(blocks, start_action)
    /\ blocks' = BlocksAfterCompile(blocks, start_action)
    /\ UNCHANGED <<start_action, block_stats>>

\* the block types of BLOCK_TYPE_MAP in the flows compiled twice
RecompileTypes == {"DistributeByPercentage", "DisconnectParticipant"}

\* flows of any block kind, compiled and compiled again
NextRecompile ==
    \/ \E ty \in RecompileTypes : Register(ty) /\ FlowSize(blocks') <= MaxFlowSize
    \/ \E i \in DOMAIN blocks, t \in TargetIds :
          Then(i, t) /\ FlowSize(blocks') <= MaxFlowSize
    \/ \E i \in DOMAIN blocks, e \in ErrorTypes, t \in TargetIds :
          OnErrorOf(i, e, t) /\ FlowSize(blocks') <= MaxFlowSize
    \/ Compile
    \/ CompileAgain

SpecRecompile == Init /\ [][NextRecompile]_vars

NextFlow ==
    \/ \E ty \in BlockTypes : Register(ty) /\ FlowSize(blocks') <= MaxFlowSize
    \/ \E i \in DOMAIN blocks, t \in TargetIds :
          Then(i, t) /\ FlowSize(blocks') <= MaxFlowSize
    \/ \E i \in DOMAIN blocks, t \in TargetIds :
          When(i, t) /\ FlowSize(blocks') <= MaxFlowSize
    \/ \E i \in DOMAIN blocks, e \in ErrorTypes, t \in TargetIds :
          OnErrorOf(i, e, t) /\ FlowSize(blocks') <= MaxFlowSize
    \/ Compile

SpecFlow == Init /\ [][NextFlow]_vars

\* the Actions and the StartAction of a flow JSON file: a list of at most
\* MaxBlocks types, and a start that is absent, an identifier of the list or
\* an identifier of no action
DecompileInputs ==
    {[types |-> tys, start |-> st] :
        tys \in UNION {[1..n -> BlockTypes \cup {UnknownType}] : n \in 0..MaxBlocks},
        st \in {None, Stray, 1}}

\* Flow.decompile: a new instance, one block appended and tracked per action
Decompile(json) ==
    /\ ret.op = "build"
    /\ blocks' = [i \in DOMAIN json.types |-> NewBlock(i, json.types[i])]
    /\ block_stats' = TrackAll(<<>>, json.types)
    /\ start_action' = json.start
    /\ ret' = [op |-> "decompile"]

NextStats ==
    \/ \E ty \in BlockTypes : Register(ty)
    \/ \E json \in DecompileInputs : Decompile(json)
    \/ \E i \in DOMAIN blocks, t \in TargetIds : Then(i, t)

SpecStats == Init /\ [][NextStats]_vars

\* the nodes whose NextAction is n
SeqParents(bs, n) == {bs[i].identifier : i \in {j \in DOMAIN bs : bs[j].next = n}}

\* the nodes that have n as the target of a condition or of an error
BranchParents(bs, n) ==
    {bs[i].identifier : i \in {j \in DOMAIN bs : n \in Range(bs[j].conds) \cup Range(bs[j].errs)}}

\* the block registered last is wired into the flow, or is the only block
LastIsWired ==
    \/ Len(blocks) <= 1
    \/ SeqParents(blocks, Len(blocks)) \cup BranchParents(blocks, Len(blocks)) # {}

\* Flow.get_input in a flow grown branch by branch: the next block is
\* registered once the block before it has been wired in
GrowBlock ==
    /\ Len(blocks) < MaxTreeBlocks
    /\ LastIsWired
    /\ AppendBlock("GetParticipantInput")

\* earlier.then(new): the block registered last becomes the NextAction of an
\* earlier block that has none
GrowThen(i) ==
    /\ i < Len(blocks)
    /\ ~LastIsWired
    /\ blocks[i].next = None
    /\ SetNext(i, Len(blocks))

\* earlier.when(value, new): the block registered last becomes the target of
\* one more condition of an earlier block
GrowWhen(i) ==
    /\ i < Len(blocks)
    /\ ~LastIsWired
    /\ AddCondition(i, Len(blocks))

\* flows that are trees rooted at the start action
NextTree ==
    \/ GrowBlock
    \/ \E i \in DOMAIN blocks : GrowThen(i)
    \/ \E i \in DOMAIN blocks : GrowWhen(i)
    \/ Layout(start_action)

SpecTree == Init /\ [][NextTree]_vars

\* Flow.get_input in a flow of at most max blocks
ForwardBlock(max) ==
    /\ Len(blocks) < max
    /\ AppendBlock("GetParticipantInput")

\* block.then(target) in a flow wired front to back: the target is the block
\* itself (a retry loop), a block registered after it, or a block that is
\* never registered
ForwardThen(i, t, max) ==
    /\ (i <= t \/ t = Stray)
    /\ SetNext(i, t)
    /\ EdgeCount(blocks') <= max

\* block.when(value, target) in a flow wired front to back
ForwardWhen(i, t, max) ==
    /\ (i < t \/ t = Stray)
    /\ EdgeCount(blocks) < max
    /\ AddCondition(i, t)

\* flows wired front to back: a node can have several parents, of both edge
\* kinds, and a transition can name a block that was never registered
NextForward ==
    \/ ForwardBlock(MaxForwardBlocks)
    \/ \E i \in DOMAIN blocks, t \in TargetIds : ForwardThen(i, t, MaxForwardEdges)
    \/ \E i \in DOMAIN blocks, t \in TargetIds : ForwardWhen(i, t, MaxForwardEdges)
    \/ Layout(start_action)

SpecForward == Init /\ [][NextForward]_vars

\* flows wired front to back among registered blocks, large enough for a
\* block to be the NextAction of several blocks of different levels
NextShared ==
    \/ ForwardBlock(MaxSharedBlocks)
    \/ \E i \in DOMAIN blocks, t \in DOMAIN blocks : ForwardThen(i, t, MaxSharedEdges)
    \/ \E i \in DOMAIN blocks, t \in DOMAIN blocks : ForwardWhen(i, t, MaxSharedEdges)
    \/ Layout(start_action)

SpecShared == Init /\ [][NextShared]_vars

\* CanvasLayoutEngine(debug).calculate_positions(flow.blocks, s) with stdout
\* of the given encoding
LayoutDebug(s, debug, encoding) ==
    /\ ret.op # "calculate_positions"
    /\ ret' = [op |-> "calculate_positions", start |-> s, debug |-> debug,
               encoding |-> encoding] @@
              CalculatePositionsDebug(blocks, s, debug, encoding)
    /\ UNCHANGED <<blocks, start_action, block_stats>>

NextDebug ==
    \/ RegisterBlock
    \/ \E i \in DOMAIN blocks, t \in TargetIds : Then(i, t)
    \/ \E i \in DOMAIN blocks, t \in TargetIds : When(i, t)
    \/ \E i \in DOMAIN blocks, t \in TargetIds : OnError(i, t)
    \/ \E s \in TargetIds \cup {None}, debug \in BOOLEAN, encoding \in Encodings :
          LayoutDebug(s, debug, encoding)

SpecDebug == Init /\ [][NextDebug]_vars

\* the orders a list of n blocks can be given in
ListOrders(n) ==
    {f \in [1..n -> 1..n] : \A i, j \in 1..n : f[i] = f[j] => i = j}

\* the same block objects in another list order
Reordered(bs, perm) == [i \in DOMAIN bs |-> bs[perm[i]]]

\* calculate_positions on the blocks of the flow listed in the order perm
LayoutReordered(perm) ==
    /\ ret.op # "calculate_positions"
    /\ ret' = [op |-> "calculate_positions", start |-> start_action, perm |-> perm] @@
              CalculatePositions(Reordered(blocks, perm), start_action)
    /\ UNCHANGED <<blocks, start_action, block_stats>>

\* flows wired front to back of at most MaxReorderedSize blocks and
\* transitions, laid out in every order of the block list
NextReordered ==
    \/ ForwardBlock(MaxForwardBlocks) /\ FlowSize(blocks') <= MaxReorderedSize
    \/ \E i \in DOMAIN blocks, t \in TargetIds :
          ForwardThen(i, t, MaxForwardEdges) /\ FlowSize(blocks') <= MaxReorderedSize
    \/ \E i \in DOMAIN blocks, t \in TargetIds :
          ForwardWhen(i, t, MaxForwardEdges) /\ FlowSize(blocks') <= MaxReorderedSize
    \/ \E perm \in ListOrders(Len(blocks)) : LayoutReordered(perm)

SpecReordered == Init /\ [][NextReordered]_vars

\* a block has a NextAction and one condition, each absent or one of the blocks
SweepBase == MaxSweepBlocks + 1

RECURSIVE Power(_, _)
Power(b, e) == IF e = 0 THEN 1 ELSE b * Power(b, e - 1)

\* the graphs over MaxSweepBlocks blocks are numbered 0 .. LastSweepIndex
LastSweepIndex == Power(SweepBase, 2 * MaxSweepBlocks) - 1

\* digit j of index k: 0 for an absent transition, else the target's identifier
SweepDigit(k, j) == (k \div Power(SweepBase, j)) % SweepBase

\* graph number k: block i has the transitions digits 2(i-1) and 2(i-1)+1 name
SweepGraph(k) ==
    [i \in 1..MaxSweepBlocks |->
        LET n == SweepDigit(k, 2 * (i - 1))
            c == SweepDigit(k, 2 * (i - 1) + 1)
        IN  [NewBlock(i, "GetParticipantInput") EXCEPT
                !.next = IF n = 0 THEN None ELSE n,
                !.conds = IF c = 0 THEN <<>> ELSE <<c>>]]

\* rows have a gap: an integer below the largest row that no node uses
HasGap(rows) ==
    LET used == {rows[k] : k \in DOMAIN rows}
    IN  \E r \in 0..Max(used \cup {0}) : r \notin used

\* _assign_levels, _assign_rows and _compact_rows run on the next graph, from
\* its first block; gap_seen tells whether the rows _assign_rows returned had
\* a gap for this graph or for a graph before it
SweepStep ==
    LET k == IF ret.op = "sweep" THEN ret.index + 1 ELSE 0
        bs == SweepGraph(k)
        layout == ComputeLayout(bs, 1)
    IN  /\ ret.op \in {"build", "sweep"}
        /\ k <= LastSweepIndex
        /\ blocks' = bs
        /\ start_action' = 1
        /\ ret' = [op |-> "sweep", index |-> k,
                   gap_seen |-> (ret.op = "sweep" /\ ret.gap_seen) \/ HasGap(layout.assigned)]
                  @@ layout
        /\ UNCHANGED block_stats

NextSweep == SweepStep

SpecSweep == Init /\ [][NextSweep]_vars

NextCompact == \E r \in RowDicts : CompactRowsCall(r)

SpecCompact == Init /\ [][NextCompact]_vars

\* ------------------------------------------------------------ properties
LayoutDone == ret.op = "calculate_positions"

\* the targets of a block, read off its transitions
TargetSet(b) ==
    (IF b.next # None THEN {b.next} ELSE {}) \cup Range(b.conds) \cup Range(b.errs)

\* one step along any edge of the node list
Successors(bs, S) == UNION {TargetSet(bs[i]) : i \in {j \in DOMAIN bs : bs[j].identifier \in S}}

RECURSIVE ReachIn(_, _, _)
\* the identifiers at most k edges away from start
ReachIn(bs, start, k) ==
    IF k = 0 THEN {start}
    ELSE LET R == ReachIn(bs, start, k - 1) IN R \cup Successors(bs, R)

\* every identifier some path from start leads to (a path visits a list node at most once)
Reachable(bs, start) == IF start = None THEN {} ELSE ReachIn(bs, start, Len(bs))

\* the nodes of the list reachable from start
ReachableNodes(bs, start) == Reachable(bs, start) \cap BlockIds(bs)

\* length of the shortest path from start to n
Dist(bs, start, n) == Min({k \in 0..Len(bs) : n \in ReachIn(bs, start, k)})

HasCycle(bs) == \E i \in DOMAIN bs : bs[i].identifier \in Reachable(bs, bs[i].identifier) \ {bs[i].identifier}
                   \/ bs[i].identifier \in TargetSet(bs[i])

\* C1: the keys of the returned mapping are exactly the nodes of the list
\* reachable from the start id; no other identifier has a position.
C1_KeysAreReachableNodes ==
    LayoutDone => DOMAIN ret.positions = ReachableNodes(blocks, ret.start)

\* C2: after row assignment and after compaction, two distinct nodes of the
\* same level never have the same row.
C2_NoSameLevelRowCollision ==
    LayoutDone =>
        \A a, b \in LevelKeys(ret.levels) :
            (a # b /\ LevelOf(ret.levels, a) = LevelOf(ret.levels, b)) =>
                /\ ret.assigned[a] # ret.assigned[b]
                /\ ret.rows[a] # ret.rows[b]

C2_Witness ==
    /\ LayoutDone
    /\ HasCycle(blocks)
    /\ \E a, b \in LevelKeys(ret.levels) :
          /\ a # b
          /\ LevelOf(ret.levels, a) = LevelOf(ret.levels, b)
          /\ Cardinality({i \in DOMAIN blocks : b \in TargetSet(blocks[i])}) >= 2

\* the collision count of _print_debug_info: the entries whose (x, y) an
\* earlier entry already has
CollisionCount(positions) ==
    Cardinality(DOMAIN positions)
        - Cardinality({<<positions[k].x, positions[k].y>> : k \in DOMAIN positions})

\* C3: no two identifiers of the returned mapping have the same (x, y), and
\* the diagnostic's collision count is 0.
C3_CollisionFree ==
    LayoutDone =>
        /\ \A a, b \in DOMAIN ret.positions :
               a # b => ret.positions[a] # ret.positions[b]
        /\ CollisionCount(ret.positions) = 0

C3_Witness ==
    /\ LayoutDone
    /\ Cardinality(DOMAIN ret.positions) >= 3
    /\ \E a, b \in DOMAIN ret.positions : a # b /\ ret.positions[a].x = ret.positions[b].x
    /\ \E a, b \in DOMAIN ret.positions : a # b /\ ret.positions[a].y = ret.positions[b].y

\* C4: every positioned node is in the column of its shortest path from the
\* start: x = START_X + d * HORIZONTAL_SPACING, all edge kinds counting alike.
C4_ColumnIsShortestPath ==
    LayoutDone =>
        \A n \in DOMAIN ret.positions :
            ret.positions[n].x = START_X + Dist(blocks, ret.start, n) * HORIZONTAL_SPACING

\* a node reached by two paths of different lengths
C4_Witness ==
    /\ LayoutDone
    /\ \E n \in DOMAIN ret.positions :
          \E i, j \in DOMAIN blocks :
              /\ n \in TargetSet(blocks[i]) /\ n \in TargetSet(blocks[j])
              /\ blocks[i].identifier \in DOMAIN ret.positions
              /\ blocks[j].identifier \in DOMAIN ret.positions
              /\ Dist(blocks, ret.start, blocks[i].identifier)
                     < Dist(blocks, ret.start, blocks[j].identifier)
              /\ Dist(blocks, ret.start, n) = Dist(blocks, ret.start, blocks[i].identifier) + 1

\* C5: the start node is at (START_X, START_Y), whatever points back to it.
C5_StartAtOrigin ==
    (LayoutDone /\ ret.start # None) =>
        /\ ret.start \in DOMAIN ret.positions
        /\ ret.positions[ret.start] = [x |-> START_X, y |-> START_Y]

\* the start is the target of an edge of another positioned node
C5_Witness ==
    /\ LayoutDone
    /\ ret.start \in BlockIds(blocks)
    /\ \E i \in DOMAIN blocks :
          /\ blocks[i].identifier # ret.start
          /\ blocks[i].identifier \in DOMAIN ret.positions
          /\ ret.start \in TargetSet(blocks[i])

\* C7: the call ends (neither loop is still running at its bound) and every
\* reachable node is in the result exactly once.
C7_TerminatesOncePerNode ==
    LayoutDone =>
        /\ ret.completed
        /\ \A n \in ReachableNodes(blocks, ret.start) :
               /\ Cardinality({i \in DOMAIN ret.levels : ret.levels[i].id = n}) = 1
               /\ n \in DOMAIN ret.positions

\* a cycle through the start, and a node with two parents
C7_Witness ==
    /\ LayoutDone
    /\ ret.start \in BlockIds(blocks)
    /\ ret.start \in Successors(blocks, Reachable(blocks, ret.start))
    /\ \E n \in DOMAIN ret.positions :
          Cardinality({i \in DOMAIN blocks : n \in TargetSet(blocks[i])}) >= 2

\* C8: a smaller compacted row means a strictly smaller y, the same row the
\* same y.
C8_RowOrderIsYOrder ==
    LayoutDone =>
        \A a, b \in DOMAIN ret.positions :
            /\ ret.rows[a] < ret.rows[b] => ret.positions[a].y < ret.positions[b].y
            /\ ret.rows[a] = ret.rows[b] => ret.positions[a].y = ret.positions[b].y

C8_Witness ==
    /\ LayoutDone
    /\ \E a, b, c \in DOMAIN ret.positions :
          a # b /\ ret.rows[a] = ret.rows[b] /\ ret.rows[a] < ret.rows[c]

\* the estimated height of a node plus padding; an identifier with no node in
\* the list has no branches
PaddedHeight(bs, n) ==
    LET branch_count ==
            IF n \in BlockIds(bs)
            THEN Len(GetBlock(bs, n).conds) + Len(GetBlock(bs, n).errs)
            ELSE 0
    IN  BLOCK_HEIGHT_BASE + branch_count * BLOCK_HEIGHT_PER_BRANCH + ROW_PADDING

CompactDone == ret.op = "compact_rows"

\* C10: _compact_rows keeps the node set, uses exactly the rows 0..k-1 where
\* k is the number of distinct input rows, and keeps order and equality.
C10_CompactDenseOrderPreserving ==
    CompactDone =>
        LET src == ret.input
            dst == ret.output
        IN  /\ DOMAIN dst = DOMAIN src
            /\ Range(dst) = 0..(Cardinality(Range(src)) - 1)
            /\ \A a, b \in DOMAIN src :
                   /\ (src[a] < src[b]) <=> (dst[a] < dst[b])
                   /\ (src[a] = src[b]) <=> (dst[a] = dst[b])

\* an input with a gap, a shared row, and not starting at 0
C10_Witness ==
    /\ CompactDone
    /\ \E a, b, c \in DOMAIN ret.input :
          /\ a # b /\ ret.input[a] = ret.input[b]
          /\ ret.input[c] > ret.input[a] + 1
          /\ ret.input[a] > 0
          /\ ret.output[c] # ret.input[c]

\* C11: the start has level 0, no level is negative, and every other node
\* with a level has a predecessor exactly one level before it.
C11_LevelsStepByOne ==
    (LayoutDone /\ ret.start # None) =>
        /\ HasLevel(ret.levels, ret.start) /\ LevelOf(ret.levels, ret.start) = 0
        /\ \A n \in LevelKeys(ret.levels) : LevelOf(ret.levels, n) >= 0
        /\ \A n \in LevelKeys(ret.levels) \ {ret.start} :
               \E i \in DOMAIN blocks :
                   /\ n \in TargetSet(blocks[i])
                   /\ HasLevel(ret.levels, blocks[i].identifier)
                   /\ LevelOf(ret.levels, blocks[i].identifier) = LevelOf(ret.levels, n) - 1

\* a node two levels away, and a node that also has a predecessor not before it
C11_Witness ==
    /\ LayoutDone
    /\ \E n \in LevelKeys(ret.levels) : LevelOf(ret.levels, n) = 2
    /\ \E n \in LevelKeys(ret.levels) \ {ret.start} :
          \E i \in DOMAIN blocks :
                /\ n \in TargetSet(blocks[i])
                /\ HasLevel(ret.levels, blocks[i].identifier)
                /\ LevelOf(ret.levels, blocks[i].identifier) >= LevelOf(ret.levels, n)

\* C12: a node of the list that the start does not reach has no level, no
\* row and no position, and the call still ends.
C12_UnreachableNotPlaced ==
    LayoutDone =>
        /\ ret.completed
        /\ \A n \in BlockIds(blocks) \ Reachable(blocks, ret.start) :
               /\ ~HasLevel(ret.levels, n)
               /\ n \notin DOMAIN ret.assigned
               /\ n \notin DOMAIN ret.rows
               /\ n \notin DOMAIN ret.positions

\* an unreachable node that points into the positioned part
C12_Witness ==
    /\ LayoutDone
    /\ ret.positions # <<>>
    /\ \E i \in DOMAIN blocks :
          /\ blocks[i].identifier \notin Reachable(blocks, ret.start)
          /\ TargetSet(blocks[i]) \cap DOMAIN ret.positions # {}

\* C13: with no start id the result is the empty mapping, whatever the list.
C13_NoStartGivesEmpty ==
    (LayoutDone /\ ret.start = None) => (ret.positions = <<>> /\ ret.completed)

C13_Witness ==
    /\ LayoutDone
    /\ ret.start = None
    /\ ret.positions = <<>>
    /\ Len(blocks) >= 2
    /\ EdgeCount(blocks) >= 2

\* C14: a start id that names no node of the list gives empty levels and the
\* empty mapping.
C14_UnmatchedStartGivesEmpty ==
    (LayoutDone /\ ret.start # None /\ ret.start \notin BlockIds(blocks)) =>
        (ret.levels = <<>> /\ ret.positions = <<>>)

\* the walk along NextAction from id, at most n steps, as far as the list goes
RECURSIVE NextWalk(_, _, _)
NextWalk(bs, id, n) ==
    IF n = 0 \/ id \notin BlockIds(bs) \/ GetBlock(bs, id).next = None THEN <<id>>
    ELSE <<id>> \o NextWalk(bs, GetBlock(bs, id).next, n - 1)

\* the list is a simple chain of sequential edges from start: no block has a
\* condition or an error, the walk from start never comes back, and it
\* passes every block
IsChainFrom(bs, start) ==
    /\ start \in BlockIds(bs)
    /\ \A i \in DOMAIN bs : bs[i].conds = <<>> /\ bs[i].errs = <<>>
    /\ LET walk == NextWalk(bs, start, Len(bs))
       IN  /\ \A i, j \in DOMAIN walk : i # j => walk[i] # walk[j]
           /\ Range(walk) = BlockIds(bs)
           /\ GetBlock(bs, walk[Len(walk)]).next = None

\* C19: in a simple chain of sequential edges started at its head, the i-th
\* node is at x = START_X + i * HORIZONTAL_SPACING, y = START_Y.
C19_ChainOnStartRow ==
    (LayoutDone /\ IsChainFrom(blocks, ret.start)) =>
        LET walk == NextWalk(blocks, ret.start, Len(blocks))
        IN  /\ DOMAIN ret.positions = Range(walk)
            /\ \A i \in DOMAIN walk :
                   ret.positions[walk[i]] =
                       [x |-> START_X + (i - 1) * HORIZONTAL_SPACING, y |-> START_Y]

\* a chain of at least two blocks whose head is not the first block of the list
C19_Witness ==
    /\ LayoutDone
    /\ IsChainFrom(blocks, ret.start)
    /\ Len(blocks) >= 2
    /\ ret.start # blocks[1].identifier

\* the start has no sequential edge and no error edge, k >= 2 conditions to k
\* distinct identifiers, none of which has an outgoing edge
IsFan(bs, start) ==
    /\ start \in BlockIds(bs)
    /\ LET A == GetBlock(bs, start)
       IN  /\ A.next = None /\ A.errs = <<>>
           /\ Len(A.conds) >= 2
           /\ \A i, j \in DOMAIN A.conds : i # j => A.conds[i] # A.conds[j]
           /\ \A i \in DOMAIN A.conds : GetAllTargets(GetBlock(bs, A.conds[i])) = <<>>

\* C20: the k condition targets of such a start are all in column 1, their
\* y strictly increases in the order of the condition list, and the gap under
\* the start's row is max(VERTICAL_SPACING_MIN, BASE + k * PER_BRANCH + PADDING).
C20_FanOutBelowStart ==
    (LayoutDone /\ IsFan(blocks, ret.start)) =>
        LET c == GetBlock(blocks, ret.start).conds
            k == Len(c)
        IN  /\ \A i \in DOMAIN c :
                   ret.positions[c[i]].x = START_X + HORIZONTAL_SPACING
            /\ \A i, j \in DOMAIN c :
                   i < j => ret.positions[c[i]].y < ret.positions[c[j]].y
            /\ ret.positions[c[2]].y - ret.positions[ret.start].y =
                   Max({VERTICAL_SPACING_MIN,
                        BLOCK_HEIGHT_BASE + k * BLOCK_HEIGHT_PER_BRANCH + ROW_PADDING})

C20_Witness ==
    /\ LayoutDone
    /\ IsFan(blocks, ret.start)
    /\ ret.positions[GetBlock(blocks, ret.start).conds[2]].y > START_Y + VERTICAL_SPACING_MIN

CompileDone == ret.op = "compile"

\* some block of the list cannot be reached from the start action
HasOrphan == BlockIds(blocks) \ Reachable(blocks, start_action) # {}

\* some GetParticipantInput block has no handler for one of the three
\* required error types
MissingHandler ==
    \E i \in DOMAIN blocks :
        /\ blocks[i].type = "GetParticipantInput"
        /\ \E e \in {"InputTimeLimitExceeded", "NoMatchingCondition", "NoMatchingError"} :
               \A j \in DOMAIN blocks[i].etypes : blocks[i].etypes[j] # e

\* some block that is not of a terminal type has no outgoing transition
OpenBlock ==
    \E i \in DOMAIN blocks :
        /\ blocks[i].type \notin {"DisconnectParticipant", "EndFlowExecution",
                                  "TransferToFlow", "TransferContactToQueue"}
        /\ blocks[i].next = None
        /\ blocks[i].conds = <<>>
        /\ blocks[i].errs = <<>>

\* C15: compile raises FlowValidationError, and produces nothing, when the
\* flow has no start action, an orphaned block, a GetParticipantInput block
\* missing a required error handler or a non-terminal block without an
\* outgoing transition; it returns a compiled flow only when none holds.
C15_CompileValidatesFirst ==
    CompileDone =>
        /\ (start_action = None \/ HasOrphan \/ MissingHandler \/ OpenBlock) =>
               (ret.raised = "FlowValidationError" /\ ret.compiled = <<>>)
        /\ ret.compiled # <<>> =>
               /\ ret.raised = ""
               /\ ~(start_action = None \/ HasOrphan \/ MissingHandler \/ OpenBlock)
               /\ ret.compiled[1].StartAction = start_action
               /\ ret.compiled[1].Actions = blocks

\* a flow with a GetParticipantInput block is compiled
C15_Witness ==
    /\ CompileDone
    /\ ret.compiled # <<>>
    /\ ret.compiled[1].Metadata # <<>>
    /\ \E i \in DOMAIN blocks : blocks[i].type = "GetParticipantInput"

\* C16: find_orphaned_blocks ends on every flow and returns exactly the blocks
\* of the list that the start does not reach through NextAction, condition
\* or error transitions, which are exactly the blocks of the list that
\* calculate_positions leaves without a position for the same list and start.
C16_OrphansAreUnplacedBlocks ==
    ret.op = "find_orphaned_blocks" =>
        /\ ret.completed
        /\ ret.orphans = BlockIds(blocks) \ Reachable(blocks, ret.start)
        /\ ret.orphans =
               BlockIds(blocks) \ DOMAIN CalculatePositions(blocks, ret.start).positions

\* a cycle through the start, a block reached only by an error transition,
\* and an orphan that points into the reachable part
C16_Witness ==
    /\ ret.op = "find_orphaned_blocks"
    /\ ret.orphans # {}
    /\ ret.start \in BlockIds(blocks)
    /\ ret.start \in TargetSet(GetBlock(blocks, ret.start))
    /\ \E n \in ret.orphans : ret.start \in TargetSet(GetBlock(blocks, n))

\* the start action is None on the empty flow and the first block otherwise
StartIsFirstBlock ==
    IF blocks = <<>> THEN start_action = None
    ELSE start_action = blocks[1].identifier

\* C17: on a flow made by Flow.build the start action is None until the first
\* registration, then the identifier of the first block registered, and no
\* later registration or wiring changes it.
C17_StartActionSetOnce ==
    [][/\ StartIsFirstBlock
       /\ StartIsFirstBlock'
       /\ start_action # None => start_action' = start_action]_vars

\* a second block registered and wired, the start action still the first
C17_Witness ==
    /\ Len(blocks) = 2
    /\ start_action = blocks[1].identifier
    /\ blocks[2].next = blocks[2].identifier
    /\ ret.op = "then"

RECURSIVE SumOver(_, _)
SumOver(f, S) ==
    IF S = {} THEN 0
    ELSE LET x == CHOOSE y \in S : TRUE IN f[x] + SumOver(f, S \ {x})

\* every counter is the number of blocks of its type, and every type of a
\* block has a counter
StatsMatchBlocks ==
    /\ \A t \in DOMAIN block_stats :
           block_stats[t] = Cardinality({i \in DOMAIN blocks : blocks[i].type = t})
    /\ \A i \in DOMAIN blocks : blocks[i].type \in DOMAIN block_stats
    /\ SumOver(block_stats, DOMAIN block_stats) = Len(blocks)

\* C18: after registrations and after decompile, _block_stats[t] is the number
\* of blocks of type t, the counts sum to len(blocks), and a registration
\* makes the list longer by exactly one.
C18_StatsCountBlocks ==
    [][/\ StatsMatchBlocks
       /\ StatsMatchBlocks'
       /\ ret'.op = "register" => Len(blocks') = Len(blocks) + 1]_vars

\* a decompiled flow (its StartAction names no action) that got a second
\* block of the same type by registration
C18_Witness ==
    /\ ret.op = "register"
    /\ start_action = Stray
    /\ \E t \in DOMAIN block_stats : block_stats[t] = 2

\* the only edges into n are conditional or error edges of p
OnlyBranchChildOf(bs, n, p) ==
    /\ n # p
    /\ SeqParents(bs, n) = {}
    /\ BranchParents(bs, n) = {p}

\* another node of n's column stands on the line of p
LineOfParentTaken(n, p) ==
    \E m \in DOMAIN ret.positions \ {n} :
        /\ ret.positions[m].x = ret.positions[n].x
        /\ ret.positions[m].y = ret.positions[p].y

OnlySeqChildOf(bs, n, p) ==
    /\ n # p
    /\ SeqParents(bs, n) = {p}
    /\ BranchParents(bs, n) = {}
    /\ HasLevel(ret.levels, n) /\ HasLevel(ret.levels, p)
    /\ LevelOf(ret.levels, n) = LevelOf(ret.levels, p) + 1

\* C24 as stated: for every node P and its sequential target N with
\* level(N) = level(P) + 1, where N has no other incoming edge, y(N) = y(P).
C24_SeqChildOnParentRow ==
    LayoutDone =>
        \A n, p \in DOMAIN ret.positions :
            OnlySeqChildOf(blocks, n, p) => ret.positions[n].y = ret.positions[p].y

\* C24 amended: such a sequential target N is on the row of P exactly when no
\* other node of N's level stands on that row; when one does (a target of a
\* node placed above P that was pushed down to P's row), N is beneath P.
C24_SeqChildOnParentRowIfFree ==
    LayoutDone =>
        \A n, p \in DOMAIN ret.positions :
            OnlySeqChildOf(blocks, n, p) =>
                /\ ret.positions[n].y >= ret.positions[p].y
                /\ (ret.positions[n].y = ret.positions[p].y) <=> ~LineOfParentTaken(n, p)
                /\ \A m \in DOMAIN ret.positions \ {n} :
                      (/\ ret.positions[m].x = ret.positions[n].x
                       /\ ret.positions[m].y = ret.positions[p].y)
                      => \E q \in SeqParents(blocks, m) \cup BranchParents(blocks, m) :
                            /\ q \in DOMAIN ret.positions
                            /\ ret.positions[q].y < ret.positions[p].y

C24_Witness ==
    /\ LayoutDone
    /\ \E n, p \in DOMAIN ret.positions :
          /\ OnlySeqChildOf(blocks, n, p)
          /\ ret.positions[n].y = ret.positions[p].y
    /\ \E n, p \in DOMAIN ret.positions :
          /\ OnlySeqChildOf(blocks, n, p)
          /\ ret.positions[n].y > ret.positions[p].y

\* the position of n in the order the rows were assigned
OrderIndex(n) == CHOOSE i \in DOMAIN ret.order : ret.order[i] = n

\* the nodes that had their row when n was processed
PlacedBefore(n) == {ret.order[j] : j \in 1..(OrderIndex(n) - 1)}

\* the rows taken at n's level when n was processed
UsedBefore(n) ==
    {ret.assigned[q] :
        q \in {k \in PlacedBefore(n) : LevelOf(ret.levels, k) = LevelOf(ret.levels, n)}}

\* the nodes that target n through their sequential edge, were placed when n
\* was processed, and had a row that no node of n's level had taken
FreeSeqParents(n) ==
    {p \in SeqParents(blocks, n) \cap PlacedBefore(n) : ret.assigned[p] \notin UsedBefore(n)}

\* C21: when a node N is processed and some node that targets N through its
\* sequential edge is already placed with a row no node of N's level has
\* taken, N is assigned the row of such a parent, also when N is the
\* sequential target of several nodes.
C21_TakesFreeSeqParentRow ==
    LayoutDone =>
        \A n \in DOMAIN ret.assigned :
            FreeSeqParents(n) # {} =>
                ret.assigned[n] \in {ret.assigned[p] : p \in FreeSeqParents(n)}

\* the nodes with an edge of any kind to n that had their row when n was processed
PlacedParents(n) ==
    (SeqParents(blocks, n) \cup BranchParents(blocks, n)) \cap PlacedBefore(n)

\* the minimum row among the already-placed parents of n, 0 when none is placed
FallbackStart(n) ==
    IF PlacedParents(n) # {} THEN Min({ret.assigned[p] : p \in PlacedParents(n)}) ELSE 0

\* n has no placed sequential parent, or the row of each is taken at n's level
NoFreeSeqParent(n) == FreeSeqParents(n) = {}

\* C22: a node with no placed sequential-edge parent, or whose sequential
\* parent's row is already taken at its level, is assigned the smallest row
\* r >= m not yet taken at its level, m the minimum row among its
\* already-placed parents of any edge kind (0 when none is placed); rows
\* below m are never used for it.
C22_FallbackFirstFreeRowFromParents ==
    LayoutDone =>
        \A n \in DOMAIN ret.assigned :
            NoFreeSeqParent(n) =>
                /\ ret.assigned[n] >= FallbackStart(n)
                /\ ret.assigned[n] \notin UsedBefore(n)
                /\ \A r \in FallbackStart(n)..(ret.assigned[n] - 1) : r \in UsedBefore(n)

C22_Witness ==
    /\ LayoutDone
    /\ \E n \in DOMAIN ret.assigned :
          /\ NoFreeSeqParent(n)
          /\ FallbackStart(n) >= 1
          /\ 0 \notin UsedBefore(n)
    /\ \E n \in DOMAIN ret.assigned :
          /\ NoFreeSeqParent(n)
          /\ SeqParents(blocks, n) \cap PlacedBefore(n) # {}
          /\ ret.assigned[n] > FallbackStart(n)

\* the positioned nodes other than n with an edge of any kind to n and a
\* level not greater than the level of n
EarlierParents(n) ==
    {p \in (SeqParents(blocks, n) \cup BranchParents(blocks, n)) \ {n} :
        /\ p \in DOMAIN ret.positions
        /\ LevelOf(ret.levels, p) <= LevelOf(ret.levels, n)}

\* C28: every positioned node N other than the start has y(N) >= the minimum
\* of y(P) over its earlier parents P: a node is never placed above all of
\* its earlier parents.
C28_NotAboveAllEarlierParents ==
    LayoutDone =>
        \A n \in DOMAIN ret.positions \ {ret.start} :
            /\ EarlierParents(n) # {}
            /\ ret.positions[n].y >= Min({ret.positions[p].y : p \in EarlierParents(n)})

C28_Witness ==
    /\ LayoutDone
    /\ \E n \in DOMAIN ret.positions \ {ret.start} :
          /\ Cardinality({ret.positions[p].y : p \in EarlierParents(n)}) >= 2
          /\ ret.positions[n].y = Min({ret.positions[p].y : p \in EarlierParents(n)})
    /\ \E n \in DOMAIN ret.positions \ {ret.start} :
          /\ Min({ret.positions[p].y : p \in EarlierParents(n)}) > START_Y

\* the position of n in the BFS discovery order (the insertion order of levels)
DiscoveryIndex(n) == CHOOSE i \in DOMAIN ret.levels : ret.levels[i].id = n

\* the minimum row among the parents of n placed at earlier levels, 0 if none
SortKey(n) ==
    LET earlier == {p \in (SeqParents(blocks, n) \cup BranchParents(blocks, n)) \cap
                            DOMAIN ret.assigned :
                        LevelOf(ret.levels, p) < LevelOf(ret.levels, n)}
    IN  IF earlier = {} THEN 0 ELSE Min({ret.assigned[p] : p \in earlier})

\* u comes before v among the targets of block b: NextAction, then the
\* conditions, then the errors, in list order
TargetBefore(b, u, v) ==
    LET ts == GetAllTargets(b)
    IN  \E i, j \in DOMAIN ts : i < j /\ ts[i] = u /\ ts[j] = v

C27_DebugPrintsOnly ==
    LayoutDone =>
        /\ ret.raised = ""
        /\ ret.returned = <<CalculatePositions(blocks, ret.start).positions>>
        /\ ~ret.debug => ret.printed = <<>>
        /\ (ret.debug /\ ret.start # None) => ret.printed # <<>>

\* C30: compile() called twice in a row on the same flow, with no builder
\* call in between, yields the same block positions in
\* Metadata.ActionMetadata both times, for flows of any block kind.
C30_RecompileSamePositions ==
    (ret.op = "compile_again" /\ ret.raised = "") =>
        ret.compiled[1].Metadata = ret.first

\* every node is the sequential target of at most one node
SeqTargetsUnique(bs) ==
    \A i, j \in DOMAIN bs : (bs[i].next # None /\ bs[i].next = bs[j].next) => i = j

\* C29: for a node list with unique identifiers in which every node is the
\* sequential target of at most one node, calculate_positions gives the same
\* mapping for every permutation of the list.
C29_ListOrderIrrelevant ==
    (LayoutDone /\ SeqTargetsUnique(blocks)) =>
        ret.positions = CalculatePositions(blocks, ret.start).positions

C29_Witness ==
    /\ LayoutDone
    /\ SeqTargetsUnique(blocks)
    /\ \E i \in DOMAIN blocks : ret.perm[i] # i
    /\ \E i \in DOMAIN blocks :
          /\ blocks[i].next \in DOMAIN ret.positions
          /\ ret.positions[blocks[i].next].y > START_Y
          /\ ret.positions[blocks[i].next].y = ret.positions[blocks[i].identifier].y

\* row assignment has been run on every graph
SweepDone == ret.op = "sweep" /\ ret.index = LastSweepIndex

\* C26 as stated: there are graphs for which the rows returned by
\* _assign_rows have a gap, so that _compact_rows changes the row of at least
\* one node: once every graph has been tried, a gap has been seen.
C26_SomeGraphHasRowGap == SweepDone => ret.gap_seen

\* C26 amended: the forward scan jumps past taken rows, but the rows returned
\* by _assign_rows never have a gap: they are 0 .. k, and _compact_rows
\* returns them unchanged.
C26_AssignedRowsHaveNoGap ==
    ret.op = "sweep" =>
        /\ ~HasGap(ret.assigned)
        /\ CompactRows(ret.assigned) = ret.assigned
        /\ ret.rows = ret.assigned

C26_Witness ==
    /\ ret.op = "sweep"
    /\ \E n \in DOMAIN ret.assigned :
          /\ NoFreeSeqParent(n)
          /\ ret.assigned[n] > FallbackStart(n)
====
